---- MODULE Spec2Model ----
(***************************************************************************)
(* Employee Data Verification Portal (src/employee_verification_app.py).   *)
(*                                                                         *)
(* The program is a Streamlit script: every user interaction re-runs the   *)
(* whole script once, top to bottom, against the session's st.session_state*)
(* and the two shared log stores (the Google sheet and the local CSV).     *)
(* One action of this model is one such run.  A run is identified by the   *)
(* widget trigger(s) that are True in it:                                  *)
(*   send_btn   (line 128)  -> SendOTP                                     *)
(*   verify_btn (line 155)  -> VerifyOTP                                   *)
(*   next_btn   (line 211)  -> ReviewSummary                               *)
(*   "Submit & Lock" (line 233) alone            -> PressSubmit            *)
(*   next_btn and "Submit & Lock" in the same run -> SubmitAndLock         *)
(* A widget can be pressed only if the previous run of the session has     *)
(* rendered it; "page" records which widgets the last run left on screen.  *)
(* A press of "Submit & Lock" arrives as a run of its own, in which        *)
(* next_btn is False (PressSubmit).  The only run in which both triggers   *)
(* are True is one whose rerun request was merged with a still pending     *)
(* "Review Summary" request (Streamlit keeps the True triggers of a        *)
(* pending request when it merges a newer one into it).                    *)
(* Runs of different sessions are separate threads.  Where their steps     *)
(* can interleave inside one statement that matters, the to_csv call of    *)
(* line 252, the run is also given as two steps (BeginFallback,            *)
(* EndFallback); "writing" holds what the first step has evaluated.        *)
(***************************************************************************)
EXTENDS Integers, Sequences, FiniteSets, TLC

\* ------------------------------------------------------------ constants
OTP_VALID_FOR_SEC == 300
RESEND_COOLDOWN_SEC == 30
MAX_OTP_ATTEMPTS == 3

ALLOWED_EMAIL_DOMAINS == {"gmail.com", "yahoo.com", "outlook.com"}

\* ------------------------------------------------------------ bounds
NumSessions == 2
MaxRows == 2

Sessions == 1..NumSessions

\* The clock (time.time()) is far from 0, the default of otp_time.
StartTime == OTP_VALID_FOR_SEC + RESEND_COOLDOWN_SEC

\* The instants at which runs happen: the clock moves from one to a later one.
\* Their differences lie below, at and above both time limits.
Instants ==
    {StartTime + d : d \in {0, RESEND_COOLDOWN_SEC, OTP_VALID_FOR_SEC, OTP_VALID_FOR_SEC + 1}}

\* ------------------------------------------------------------ strings
\* An e-mail address as typed: its local part and the text after it.  The
\* code lower-cases the address before it tests the suffix "@" + domain.
Lower(t) ==
    CASE t = "Gmail.COM" -> "gmail.com"
      [] OTHER -> t

EmailInputs ==
    { [user |-> "asha", host |-> "Gmail.COM"],
      [user |-> " asha", host |-> "Gmail.COM"],
      [user |-> "asha", host |-> "corp.example"] }

\* email.strip(): an address that passed the domain test has no blank at
\* its end, one at its start is removed.
strip_email(em) ==
    [em EXCEPT !.user = CASE em.user = " asha" -> "asha" [] OTHER -> em.user]

NoEmail == [user |-> "", host |-> ""]

AllowedDomain(em) == \E d \in ALLOWED_EMAIL_DOMAINS : Lower(em.host) = d

\* An employee identifier as typed: a sequence of characters.
Digits == <<"0", "1", "2", "3", "4", "5", "6", "7", "8", "9">>

\* Characters str.isdigit() accepts and int() refuses (superscript digits).
OtherDigits == {"sup2"}

DigitValue(c) == (CHOOSE i \in 1..10 : Digits[i] = c) - 1

IsDecimal(c) == \E j \in 1..10 : Digits[j] = c

\* str.isdigit()
isdigit(t) == Len(t) > 0 /\ \A i \in 1..Len(t) : IsDecimal(t[i]) \/ t[i] \in OtherDigits

\* int(t) raises ValueError
IntRaises(t) == Len(t) = 0 \/ \E i \in 1..Len(t) : ~IsDecimal(t[i])

RECURSIVE int(_)
int(t) == IF Len(t) = 0 THEN 0
          ELSE 10 * int(SubSeq(t, 1, Len(t) - 1)) + DigitValue(t[Len(t)])

RECURSIVE str(_)
str(n) == IF n < 10 THEN <<Digits[n + 1]>>
          ELSE str(n \div 10) \o <<Digits[(n % 10) + 1]>>

\* str.strip() on a sequence of characters
RECURSIVE strip(_)
strip(t) == IF Len(t) > 0 /\ t[1] = " " THEN strip(Tail(t))
            ELSE IF Len(t) > 0 /\ t[Len(t)] = " " THEN strip(SubSeq(t, 1, Len(t) - 1))
            ELSE t

EmpIdInputs == { <<"0", "1">>, <<"2">>, <<"2", " ">>, <<"7">>, <<"x", "1">>, <<"sup2">> }

\* ------------------------------------------------------------ one-time codes
Codes == {"111111", "222222"}
OtpInputs == Codes \cup {""}

generate_otp == Codes

hash_strOfNothing(t) == "sha256:e3b0c4"

\* sha256(...).hexdigest(): a digest is a non-empty text, different for
\* different inputs and different from its input (no collisions assumed).
hash_str(t) ==
    CASE t = "" -> "sha256:e3b0c4"
      [] t = "111111" -> "sha256:bcb15f"
      [] t = "222222" -> "sha256:4cc8f4"
      [] OTHER -> "sha256:other"

\* ------------------------------------------------------------ master data
\* Cell values of the master frame: a text, a date (pd.Timestamp) or NaN.
Text(t) == [kind |-> "str", s |-> t]
Date(d, m, y) == [kind |-> "date", day |-> d, month |-> m, year |-> y]
NaN == [kind |-> "nan"]

isna(v) == v.kind = "nan"
IsTimestamp(v) == v.kind = "date"

\* strftime("%d/%m/%Y"): the text dd/mm/yyyy of a date.
strftime(v) == [kind |-> "dmy", dd |-> v.day, mm |-> v.month, yyyy |-> v.year]

Cols == <<"employee_name", "marital_status", "date_of_joining">>
ColSet == {Cols[i] : i \in 1..Len(Cols)}

df_master ==
    (1 :> [employee_name |-> Text("Asha"),
           marital_status |-> Text("Single"),
           date_of_joining |-> Date(17, 5, 2001)])
    @@
    (2 :> [employee_name |-> NaN,
           marital_status |-> Text("Married"),
           date_of_joining |-> Date(3, 11, 1998)])

MasterIndex == DOMAIN df_master

DropCols == {"marital_status"}

DROP_OPTIONSFirstRecord(col) == {df_master[1][col]} \ {NaN}

\* DROP_OPTIONS[col]: the distinct non-null values of the column.
DROP_OPTIONS(col) == {df_master[e][col] : e \in MasterIndex} \ {NaN}

\* ------------------------------------------------------------ decisions
Confirmed == Text("(confirmed)")

\* The widgets of verify_form as submitted: per column the radio value and
\* the value of the correction widget.
DecisionInputs ==
    { [c \in ColSet |-> [confirm |-> "Yes", input |-> Text("")]],
      [c \in ColSet |->
          IF c = "marital_status"
          THEN [confirm |-> "No", input |-> Text("Married")]
          ELSE [confirm |-> "Yes", input |-> Text("")]] }

\* Every radio left at "Yes": no correction widget is created.
AllYes == [c \in ColSet |-> [confirm |-> "Yes", input |-> Text("")]]

\* A date the date_input of line 203 can hand back, other than the default.
OtherDate == Date(1, 6, 2001)

\* Lines 199-206: what the correction widget of a column can hand to line
\* 207: an option of the selectbox, the Timestamp of a picked date, or the
\* text typed into the text_input (nothing, a name, or the text "(confirmed)").
WidgetValues(record, col) ==
    IF col \in DropCols THEN DROP_OPTIONS(col)
    ELSE IF IsTimestamp(record[col]) THEN {record[col], OtherDate}
    ELSE {Text(""), Text("Asha K"), Text("(confirmed)")}

\* verify_form as submitted for one record: every radio at "Yes", or one at
\* "No" with a value of its correction widget.
FormInputs(record) ==
    {AllYes} \cup
    UNION { { [AllYes EXCEPT ![c] = [confirm |-> "No", input |-> v]] :
                v \in WidgetValues(record, c) } : c \in ColSet }

correctionsOnlyChanged(record, w) ==
    [c \in {x \in ColSet : w[x].confirm = "No"} |->
        [old |-> record[c], new |-> w[c].input]]

\* corrections[col] of lines 183-209 for one record and one set of widget values.
corrections(record, w) ==
    [c \in ColSet |->
        IF w[c].confirm = "No"
        THEN [old |-> record[c], new |-> w[c].input]
        ELSE [old |-> record[c], new |-> Confirmed]]

OutCellsNaNKept(old, new) ==
    [original |-> IF IsTimestamp(old) THEN strftime(old) ELSE old,
     status   |-> IF new # Confirmed THEN "corrected" ELSE "confirmed",
     new      |-> IF IsTimestamp(new) THEN strftime(new)
                  ELSE IF new # Confirmed THEN new ELSE Text("")]

\* Lines 241-244: the cells of one column of out_row.
OutCells(old, new) ==
    [original |-> IF IsTimestamp(old) THEN strftime(old)
                  ELSE IF isna(old) THEN Text("") ELSE old,
     status   |-> IF new # Confirmed THEN "corrected" ELSE "confirmed",
     new      |-> IF IsTimestamp(new) THEN strftime(new)
                  ELSE IF new # Confirmed THEN new ELSE Text("")]

\* Lines 235-244: out_row, with employee_id as the stores keep it (its text).
\* The timestamp cell holds the text of the clock; nothing reads it back, so
\* only its presence is kept.
out_row(emp_id_int, mail, corr) ==
    [kind |-> "row",
     employee_id |-> str(emp_id_int),
     email |-> mail,
     timestamp |-> "isoformat",
     cells |-> [c \in DOMAIN corr |-> OutCells(corr[c].old, corr[c].new)]]

\* The header line pandas writes into a new CSV file.
HeaderLine == [kind |-> "header", employee_id |-> <<"employee_id">>]

\* ------------------------------------------------------------ state
VARIABLES
    now,            \* time.time()
    otp_hash,       \* st.session_state.otp_hash, per session
    otp_time,       \* st.session_state.otp_time
    otp_attempts,   \* st.session_state.otp_attempts
    otp_sent,       \* st.session_state.otp_sent
    authenticated,  \* st.session_state.authenticated
    email,          \* st.session_state.email
    employee_id,    \* st.session_state.employee_id
    page,           \* the widgets the session's last run rendered
    sheet,          \* rows of the sheet "Verified Corrections Log"
    csv,            \* lines of verified_corrections_log.csv (<<>>: no file)
    out,            \* what the last run reported: st.error/warning/success, mail sent
    writing         \* per session: the to_csv call of line 252 its run is inside

session == <<otp_hash, otp_time, otp_attempts, otp_sent, authenticated, email, employee_id>>
stores == <<sheet, csv>>
vars == <<now, otp_hash, otp_time, otp_attempts, otp_sent, authenticated, email,
          employee_id, page, sheet, csv, out, writing>>

\* No run of the session is inside line 252.
NoWrite == [kind |-> "none"]

Report(s, m, sent) == [sess |-> s, msg |-> m, mailed |-> sent]

\* Lines 106-115, and the first run of the script, which renders login_form.
Init ==
    /\ now = StartTime
    /\ otp_hash = [s \in Sessions |-> ""]
    /\ otp_time = [s \in Sessions |-> 0]
    /\ otp_attempts = [s \in Sessions |-> 0]
    /\ otp_sent = [s \in Sessions |-> FALSE]
    /\ authenticated = [s \in Sessions |-> FALSE]
    /\ email = [s \in Sessions |-> NoEmail]
    /\ employee_id = [s \in Sessions |-> <<>>]
    /\ page = [s \in Sessions |-> {"login_form"}]
    /\ sheet = <<>>
    /\ csv = <<>>
    /\ out = Report(0, "Loaded", FALSE)
    /\ writing = [s \in Sessions |-> NoWrite]

\* ------------------------------------------------------------ stores
\* sheet.col_values(1)
col_values == {sheet[i].employee_id : i \in 1..Len(sheet)}

\* pd.read_csv(...)["employee_id"].tolist(): the first line names the columns.
csv_ids == {csv[i].employee_id : i \in 2..Len(csv)}

\* Lines 91-100; primary_up: whether get_gsheet and col_values succeed.
already_submitted(emp_id, primary_up) ==
    IF primary_up
    THEN str(emp_id) \in col_values
    ELSE IF csv = <<>> THEN FALSE
         ELSE str(emp_id) \in csv_ids

\* Line 252: to_csv(mode="a", header=not csv_path.exists()).
to_csv(row) == IF csv = <<>> THEN <<HeaderLine, row>> ELSE Append(csv, row)

RowCount == Len(sheet) + Cardinality({i \in 1..Len(csv) : csv[i].kind = "row"})

\* ------------------------------------------------------------ rendering
\* Lines 121-167 without a trigger: login_form, and otp_form once a code is sent.
LoginPage(s) == {"login_form"} \cup (IF otp_sent[s] THEN {"otp_form"} ELSE {})

\* A run in which the pressed widget is not instantiated: the script only
\* renders the section its session state selects.
Rerender(s) ==
    /\ page' = [page EXCEPT ![s] = IF authenticated[s] THEN {"verify_form"} ELSE LoginPage(s)]
    /\ out' = Report(s, "Rendered", FALSE)
    /\ UNCHANGED <<writing, now, session, stores>>

\* ------------------------------------------------------------ 1. login & OTP
InCooldownUnitSlip(s) == now - otp_time[s] < RESEND_COOLDOWN_SEC \div 60

\* Line 137
InCooldown(s) == now - otp_time[s] < RESEND_COOLDOWN_SEC

ValidEmployeeAnyNumber(id) == isdigit(id) /\ ~IntRaises(id)

\* Line 133, when int() does not raise
ValidEmployee(id) == isdigit(id) /\ ~IntRaises(id) /\ int(id) \in MasterIndex

IssueStoresAfterSend(s, em, id, otp, send_ok) ==
    IF send_ok
    THEN /\ otp_hash' = [otp_hash EXCEPT ![s] = hash_str(otp)]
         /\ otp_time' = [otp_time EXCEPT ![s] = now]
         /\ otp_attempts' = [otp_attempts EXCEPT ![s] = 0]
         /\ otp_sent' = [otp_sent EXCEPT ![s] = TRUE]
         /\ email' = [email EXCEPT ![s] = strip_email(em)]
         /\ employee_id' = [employee_id EXCEPT ![s] = strip(id)]
         /\ out' = Report(s, "Sent", TRUE)
         /\ page' = [page EXCEPT ![s] = {"login_form", "otp_form"}]
         /\ UNCHANGED <<writing, now, authenticated, stores>>
    ELSE /\ out' = Report(s, "DeliveryError", FALSE)
         /\ page' = [page EXCEPT ![s] = {"login_form"}]
         /\ UNCHANGED <<writing, now, session, stores>>

\* Lines 141-149: issue a code and mail it (send_ok: send_otp does not raise).
Issue(s, em, id, otp, send_ok) ==
    /\ otp_hash' = [otp_hash EXCEPT ![s] = hash_str(otp)]
    /\ otp_time' = [otp_time EXCEPT ![s] = now]
    /\ otp_attempts' = [otp_attempts EXCEPT ![s] = 0]
    /\ otp_sent' = [otp_sent EXCEPT ![s] = TRUE]
    /\ email' = [email EXCEPT ![s] = strip_email(em)]
    /\ employee_id' = [employee_id EXCEPT ![s] = strip(id)]
    /\ IF send_ok
       THEN /\ out' = Report(s, "Sent", TRUE)
            /\ page' = [page EXCEPT ![s] = {"login_form", "otp_form"}]
       ELSE /\ out' = Report(s, "DeliveryError", FALSE)
            /\ page' = [page EXCEPT ![s] = {"login_form"}]
    /\ UNCHANGED <<writing, now, authenticated, stores>>

RejectClearsAttempts(s, m) ==
    /\ out' = Report(s, m, FALSE)
    /\ page' = [page EXCEPT ![s] = LoginPage(s)]
    /\ otp_attempts' = [otp_attempts EXCEPT ![s] = 0]
    /\ UNCHANGED <<writing, now, otp_hash, otp_time, otp_sent, authenticated, email,
                   employee_id, stores>>

\* A rejected request, lines 131-139: a message, and the page of the run.
Reject(s, m) ==
    /\ out' = Report(s, m, FALSE)
    /\ page' = [page EXCEPT ![s] = LoginPage(s)]
    /\ UNCHANGED <<writing, now, session, stores>>

\* A run that an uncaught exception ends at line 133: login_form is rendered.
Abort(s, m) ==
    /\ out' = Report(s, m, FALSE)
    /\ page' = [page EXCEPT ![s] = {"login_form"}]
    /\ UNCHANGED <<writing, now, session, stores>>

\* Lines 130-149: the run in which send_btn is True.  Whether the sheet can
\* be reached is decided when already_submitted is called, the code is drawn
\* and the mail succeeds or fails when the last branch is taken.
SendOTP(s, em, id) ==
    /\ "login_form" \in page[s]
    /\ IF authenticated[s] THEN Rerender(s)
       ELSE IF ~AllowedDomain(em) THEN Reject(s, "InvalidDomain")
       ELSE IF isdigit(id) /\ IntRaises(id) THEN Abort(s, "ValueError")
       ELSE IF ~ValidEmployee(id) THEN Reject(s, "UnknownEmployee")
       ELSE \E primary_up \in BOOLEAN :
            IF already_submitted(int(id), primary_up) THEN Reject(s, "AlreadySubmitted")
            ELSE IF InCooldown(s) THEN Reject(s, "CooldownActive")
            ELSE \E otp \in generate_otp, send_ok \in BOOLEAN :
                    Issue(s, em, id, otp, send_ok)

ExpiredUnitSlip(s) == now - otp_time[s] > OTP_VALID_FOR_SEC * 60

\* Line 157
Expired(s) == now - otp_time[s] > OTP_VALID_FOR_SEC

LockedOutNever(s) == FALSE

LockedOutOffByOne(s) == otp_attempts[s] > MAX_OTP_ATTEMPTS

\* Line 160
LockedOut(s) == otp_attempts[s] >= MAX_OTP_ATTEMPTS

VerifyOTPExpiryClearsAttempts(s, otp_in) ==
    /\ "otp_form" \in page[s]
    /\ IF authenticated[s] \/ ~otp_sent[s] THEN Rerender(s)
       ELSE IF Expired(s) THEN
            /\ otp_sent' = [otp_sent EXCEPT ![s] = FALSE]
            /\ otp_attempts' = [otp_attempts EXCEPT ![s] = 0]
            /\ out' = Report(s, "Expired", FALSE)
            /\ page' = [page EXCEPT ![s] = {"login_form", "otp_form"}]
            /\ UNCHANGED <<writing, now, otp_hash, otp_time, authenticated,
                           email, employee_id, stores>>
       ELSE IF LockedOut(s) THEN
            /\ out' = Report(s, "LockedOut", FALSE)
            /\ page' = [page EXCEPT ![s] = {"login_form", "otp_form"}]
            /\ UNCHANGED <<writing, now, session, stores>>
       ELSE IF hash_str(otp_in) = otp_hash[s] THEN
            /\ authenticated' = [authenticated EXCEPT ![s] = TRUE]
            /\ out' = Report(s, "Verified", FALSE)
            /\ page' = [page EXCEPT ![s] = {"login_form", "otp_form", "verify_form"}]
            /\ UNCHANGED <<writing, now, otp_hash, otp_time, otp_attempts, otp_sent,
                           email, employee_id, stores>>
       ELSE
            /\ otp_attempts' = [otp_attempts EXCEPT ![s] = @ + 1]
            /\ out' = Report(s, "Mismatch", FALSE)
            /\ page' = [page EXCEPT ![s] = {"login_form", "otp_form"}]
            /\ UNCHANGED <<writing, now, otp_hash, otp_time, otp_sent, authenticated,
                           email, employee_id, stores>>

\* Lines 152-167: the run in which verify_btn is True.
VerifyOTP(s, otp_in) ==
    /\ "otp_form" \in page[s]
    /\ IF authenticated[s] \/ ~otp_sent[s] THEN Rerender(s)
       ELSE IF Expired(s) THEN
            /\ otp_sent' = [otp_sent EXCEPT ![s] = FALSE]
            /\ out' = Report(s, "Expired", FALSE)
            /\ page' = [page EXCEPT ![s] = {"login_form", "otp_form"}]
            /\ UNCHANGED <<writing, now, otp_hash, otp_time, otp_attempts, authenticated,
                           email, employee_id, stores>>
       ELSE IF LockedOut(s) THEN
            /\ out' = Report(s, "LockedOut", FALSE)
            /\ page' = [page EXCEPT ![s] = {"login_form", "otp_form"}]
            /\ UNCHANGED <<writing, now, session, stores>>
       ELSE IF hash_str(otp_in) = otp_hash[s] THEN
            /\ authenticated' = [authenticated EXCEPT ![s] = TRUE]
            /\ out' = Report(s, "Verified", FALSE)
            /\ page' = [page EXCEPT ![s] = {"login_form", "otp_form", "verify_form"}]
            /\ UNCHANGED <<writing, now, otp_hash, otp_time, otp_attempts, otp_sent,
                           email, employee_id, stores>>
       ELSE
            /\ otp_attempts' = [otp_attempts EXCEPT ![s] = @ + 1]
            /\ out' = Report(s, "Mismatch", FALSE)
            /\ page' = [page EXCEPT ![s] = {"login_form", "otp_form"}]
            /\ UNCHANGED <<writing, now, otp_hash, otp_time, otp_sent, authenticated,
                           email, employee_id, stores>>

\* ------------------------------------------------------------ 2. wizard, 3. summary
\* Lines 173-231: the run in which next_btn is True and "Submit & Lock" is
\* not: the summary and the button are rendered.
ReviewSummary(s, w) ==
    /\ "verify_form" \in page[s]
    /\ IF ~authenticated[s] THEN Rerender(s)
       ELSE /\ page' = [page EXCEPT ![s] = {"verify_form", "submit_btn"}]
            /\ out' = Report(s, "Summary", FALSE)
            /\ UNCHANGED <<writing, now, session, stores>>

\* The run a press of "Submit & Lock" starts: next_btn is False in it, so
\* line 216 skips the block that holds the button (lines 217-262).
PressSubmit(s) ==
    /\ "submit_btn" \in page[s]
    /\ Rerender(s)

LockFlagOnly(s) ==
    /\ authenticated' = [authenticated EXCEPT ![s] = FALSE]
    /\ UNCHANGED <<otp_sent, otp_hash, employee_id, otp_time, otp_attempts, email>>

\* Lines 258-262
Lock(s) ==
    /\ authenticated' = [authenticated EXCEPT ![s] = FALSE]
    /\ otp_sent' = [otp_sent EXCEPT ![s] = FALSE]
    /\ otp_hash' = [otp_hash EXCEPT ![s] = ""]
    /\ employee_id' = [employee_id EXCEPT ![s] = <<>>]
    /\ UNCHANGED <<otp_time, otp_attempts, email>>

WriteRowAlsoCsv(s, row, primary_ok, csv_ok) ==
    IF primary_ok
    THEN /\ sheet' = Append(sheet, row)
         /\ csv' = to_csv(row)
         /\ out' = Report(s, "Recorded", FALSE)
    ELSE IF csv_ok
    THEN /\ sheet' = sheet
         /\ csv' = to_csv(row)
         /\ out' = Report(s, "RecordedLocally", FALSE)
    ELSE /\ UNCHANGED stores
         /\ out' = Report(s, "WriteError", FALSE)

\* Lines 246-253: the sheet, else the CSV (primary_ok: get_gsheet and
\* append_row succeed; csv_ok: to_csv succeeds).  A failed call writes nothing.
WriteRow(s, row, primary_ok, csv_ok) ==
    IF primary_ok
    THEN /\ sheet' = Append(sheet, row)
         /\ csv' = csv
         /\ out' = Report(s, "Recorded", FALSE)
    ELSE IF csv_ok
    THEN /\ sheet' = sheet
         /\ csv' = to_csv(row)
         /\ out' = Report(s, "RecordedLocally", FALSE)
    ELSE /\ UNCHANGED stores
         /\ out' = Report(s, "WriteError", FALSE)

\* Lines 216-262: the run in which next_btn and "Submit & Lock" are both True.
SubmitAndLock(s, w, primary_ok, csv_ok) ==
    /\ {"verify_form", "submit_btn"} \subseteq page[s]
    /\ RowCount < MaxRows
    /\ IF ~authenticated[s] THEN Rerender(s)
       ELSE LET emp_id_int == int(employee_id[s])
                row == out_row(emp_id_int, email[s],
                               corrections(df_master[emp_id_int], w))
            IN  /\ WriteRow(s, row, primary_ok, csv_ok)
                /\ IF primary_ok \/ csv_ok THEN Lock(s) ELSE UNCHANGED session
                /\ page' = [page EXCEPT ![s] = {"verify_form", "submit_btn"}]
                /\ now' = now
                /\ writing' = writing

\* Lines 247-252 as two steps, for runs of several sessions that overlap: the
\* sheet has failed, and line 252 has evaluated its argument
\* header=not csv_path.exists() but has not yet opened the file.
BeginFallback(s, w) ==
    /\ {"verify_form", "submit_btn"} \subseteq page[s]
    /\ authenticated[s]
    /\ writing[s] = NoWrite
    /\ RowCount + Cardinality({x \in Sessions : writing[x] # NoWrite}) < MaxRows
    /\ LET emp_id_int == int(employee_id[s])
           row == out_row(emp_id_int, email[s], corrections(df_master[emp_id_int], w))
       IN  writing' = [writing EXCEPT ![s] =
                          [kind |-> "to_csv", row |-> row, header |-> (csv = <<>>)]]
    /\ UNCHANGED <<now, session, page, stores, out>>

\* Line 252, the write itself (mode="a": at the end of the file, with the
\* column names first when header is True), and lines 253-262.
EndFallback(s) ==
    /\ writing[s] # NoWrite
    /\ csv' = csv \o (IF writing[s].header THEN <<HeaderLine>> ELSE <<>>) \o <<writing[s].row>>
    /\ sheet' = sheet
    /\ out' = Report(s, "RecordedLocally", FALSE)
    /\ Lock(s)
    /\ page' = [page EXCEPT ![s] = {"verify_form", "submit_btn"}]
    /\ writing' = [writing EXCEPT ![s] = NoWrite]
    /\ now' = now

\* ------------------------------------------------------------ time
Tick(t) ==
    /\ t > now
    /\ now' = t
    /\ UNCHANGED <<session, page, stores, out, writing>>

\* One session at the keyboard, every input.
Next ==
    \/ \E em \in EmailInputs, id \in EmpIdInputs : SendOTP(1, em, id)
    \/ \E otp_in \in OtpInputs : VerifyOTP(1, otp_in)
    \/ \E w \in DecisionInputs : ReviewSummary(1, w)
    \/ PressSubmit(1)
    \/ \E w \in DecisionInputs, primary_ok \in BOOLEAN, csv_ok \in BOOLEAN :
            SubmitAndLock(1, w, primary_ok, csv_ok)
    \/ \E t \in Instants : Tick(t)

Spec == Init /\ [][Next]_vars

\* Every session, each with one address, the identifiers of employee 1 and
\* the code it is sent, at the first two instants.
NextRace ==
    \/ \E s \in Sessions, id \in {<<"0", "1">>, <<"7">>} :
            SendOTP(s, [user |-> "asha", host |-> "Gmail.COM"], id)
    \/ \E s \in Sessions, otp_in \in {"111111", ""} : VerifyOTP(s, otp_in)
    \/ \E s \in Sessions, w \in DecisionInputs : ReviewSummary(s, w)
    \/ \E s \in Sessions : PressSubmit(s)
    \/ \E s \in Sessions, w \in DecisionInputs, primary_ok \in BOOLEAN, csv_ok \in BOOLEAN :
            SubmitAndLock(s, w, primary_ok, csv_ok)
    \/ Tick(StartTime + RESEND_COOLDOWN_SEC)

SpecRace == Init /\ [][NextRace]_vars

\* Every session, employees 1 and 2, the sheet out of reach: the fallback
\* writes of runs that overlap.  A session has one run at a time.
NextFallback ==
    \/ \E s \in Sessions, id \in {<<"0", "1">>, <<"2">>} :
            /\ writing[s] = NoWrite
            /\ SendOTP(s, [user |-> "asha", host |-> "Gmail.COM"], id)
    \/ \E s \in Sessions, otp_in \in Codes : writing[s] = NoWrite /\ VerifyOTP(s, otp_in)
    \/ \E s \in Sessions, w \in DecisionInputs : writing[s] = NoWrite /\ ReviewSummary(s, w)
    \/ \E s \in Sessions, w \in DecisionInputs : BeginFallback(s, w)
    \/ \E s \in Sessions : EndFallback(s)

SpecFallback == Init /\ [][NextFallback]_vars

\* One session, employees 1 and 2, every submission of verify_form.
NextForm ==
    \/ \E id \in {<<"0", "1">>, <<"2">>} :
            SendOTP(1, [user |-> "asha", host |-> "Gmail.COM"], id)
    \/ VerifyOTP(1, "111111")
    \/ \E e \in MasterIndex : \E w \in FormInputs(df_master[e]) :
            authenticated[1] /\ e = int(employee_id[1]) /\ ReviewSummary(1, w)
    \/ \E e \in MasterIndex : \E w \in FormInputs(df_master[e]) :
            /\ authenticated[1] /\ e = int(employee_id[1])
            /\ \E primary_ok \in BOOLEAN : SubmitAndLock(1, w, primary_ok, TRUE)
    \/ PressSubmit(1)
    \/ Tick(StartTime + RESEND_COOLDOWN_SEC)

SpecForm == Init /\ [][NextForm]_vars

\* Every session, all for employee 1, each trying the code "111111" against
\* the code it was issued, at the first two instants.
NextCodes ==
    \/ \E s \in Sessions :
            SendOTP(s, [user |-> "asha", host |-> "Gmail.COM"], <<"0", "1">>)
    \/ \E s \in Sessions : VerifyOTP(s, "111111")
    \/ \E s \in Sessions : ReviewSummary(s, AllYes)
    \/ \E s \in Sessions : PressSubmit(s)
    \/ \E s \in Sessions : SubmitAndLock(s, AllYes, TRUE, TRUE)
    \/ Tick(StartTime + RESEND_COOLDOWN_SEC)

SpecCodes == Init /\ [][NextCodes]_vars

\* ------------------------------------------------------------ properties
Submitted(e) == str(e) \in (col_values \cup csv_ids)

RowsOf(e) ==
    Cardinality({i \in 1..Len(sheet) : sheet[i].employee_id = str(e)})
    + Cardinality({i \in 2..Len(csv) : csv[i].employee_id = str(e)})

\* The typed inputs that pass the tests of lines 131 and 133.
AllowedEmails == {em \in EmailInputs : AllowedDomain(em)}
ValidIds == {id \in EmpIdInputs : ValidEmployee(id)}

\* The step is a run of session s that reports one of the messages ms (a run
\* leaves the clock alone, a step of the clock moves it).
Ran(s, ms) == now' = now /\ out'.sess = s /\ out'.msg \in ms

RequestMsgs == {"InvalidDomain", "ValueError", "UnknownEmployee", "AlreadySubmitted",
                "CooldownActive", "Sent", "DeliveryError", "Rendered"}
SubmitMsgs == {"Recorded", "RecordedLocally", "WriteError", "Rendered"}

\* C1: once a row for an employee is in the sheet or in the CSV,
\* already_submitted answers True for that employee whether or not the sheet
\* can be reached, and every request for a code for that employee is rejected
\* as AlreadySubmitted without a code being issued.
C1_SubmittedIsRemembered ==
    [][ /\ \A e \in MasterIndex :
              Submitted(e)' => \A up \in BOOLEAN : already_submitted(e, up)'
        /\ \A s \in Sessions :
             (Ran(s, RequestMsgs) /\ ~authenticated[s]) =>
               \A em \in AllowedEmails, id \in ValidIds :
                 (Submitted(int(id)) /\ SendOTP(s, em, id))
                 => (out'.msg = "AlreadySubmitted" /\ otp_hash' = otp_hash)
      ]_vars

\* C2: the sheet and the CSV together hold at most one row per employee.
C2_OneRowPerEmployee == \A e \in MasterIndex : RowsOf(e) <= 1

\* C3: a run of the submit block by an authenticated session appends the row
\* to the sheet and leaves the CSV alone when the sheet accepts it, appends it
\* to the CSV and leaves the sheet alone when the sheet fails, and when both
\* fail changes neither store and reports the error.
C3_ExactlyOneStore ==
    [][ \A s \in Sessions, e \in MasterIndex :
          (Ran(s, SubmitMsgs) /\ authenticated[s] /\ e = int(employee_id[s])) =>
            \A w \in DecisionInputs, p \in BOOLEAN, c \in BOOLEAN :
              SubmitAndLock(s, w, p, c) =>
                \E row \in {out_row(e, email[s], corrections(df_master[e], w))} :
                    /\ p => (sheet' = Append(sheet, row) /\ csv' = csv)
                    /\ (~p /\ c) => /\ sheet' = sheet
                                    /\ Len(csv') > Len(csv)
                                    /\ csv'[Len(csv')] = row
                                    /\ RowsOf(e)' = RowsOf(e) + 1
                    /\ (~p /\ ~c) => (stores' = stores /\ out'.msg = "WriteError")
                    /\ (sheet' # sheet) <=> p
                    /\ (csv' # csv) <=> (~p /\ c)
      ]_vars

C3_Witness == out.msg = "RecordedLocally" /\ sheet = <<>> /\ Len(csv) = 2

\* C4: when an authenticated session whose last run showed the summary
\* presses "Submit & Lock", the run that press starts writes one row for the
\* session's employee and ends the session.
C4_PressSubmitRecords ==
    [][ \A s \in Sessions, e \in MasterIndex :
          (PressSubmit(s) /\ authenticated[s] /\ e = int(employee_id[s])) =>
            (RowsOf(e)' = RowsOf(e) + 1 /\ ~authenticated'[s])
      ]_vars

\* C5: a request inside the cooldown that passes the other checks is answered
\* CooldownActive, sends no mail and leaves the code hash, the issue time and
\* the attempt counter as they were.
C5_CooldownRejects ==
    [][ \A s \in Sessions :
          ( /\ Ran(s, RequestMsgs) /\ ~authenticated[s]
            /\ now - otp_time[s] < RESEND_COOLDOWN_SEC ) =>
            \A em \in AllowedEmails, id \in ValidIds :
              (~Submitted(int(id)) /\ SendOTP(s, em, id))
              => ( /\ out'.msg = "CooldownActive" /\ ~out'.mailed
                   /\ otp_hash'[s] = otp_hash[s]
                   /\ otp_time'[s] = otp_time[s]
                   /\ otp_attempts'[s] = otp_attempts[s] )
      ]_vars

C5_Witness ==
    \E s \in Sessions :
        /\ out.sess = s /\ out.msg = "CooldownActive"
        /\ otp_hash[s] # "" /\ now - otp_time[s] < RESEND_COOLDOWN_SEC

IssueMsgs == {"Sent", "DeliveryError"}
RecordMsgs == {"Recorded", "RecordedLocally"}
RejectMsgs == {"InvalidDomain", "ValueError", "UnknownEmployee", "AlreadySubmitted",
               "CooldownActive"}

InWindow(s) == now - otp_time[s] <= OTP_VALID_FOR_SEC

\* C6: while the attempt counter is at MAX_OTP_ATTEMPTS and the code is still
\* within its validity window, the session is not authenticated and every
\* verify, with any candidate, the issued code included, reports LockedOut and
\* changes nothing; the counter grows only by one per mismatch against the
\* same code, and falls only to 0, in a run that issues a new code.
C6_LockoutBlocksVerify ==
    [][ \A s \in Sessions :
          /\ (otp_attempts[s] >= MAX_OTP_ATTEMPTS /\ InWindow(s))
                => (otp_sent[s] /\ ~authenticated[s])
          /\ \A c \in OtpInputs :
                (otp_attempts[s] >= MAX_OTP_ATTEMPTS /\ InWindow(s) /\ VerifyOTP(s, c))
                => (out'.msg = "LockedOut" /\ ~authenticated'[s] /\ session' = session)
          /\ otp_attempts'[s] > otp_attempts[s]
                => /\ Ran(s, {"Mismatch"})
                   /\ otp_attempts'[s] = otp_attempts[s] + 1
                   /\ otp_hash'[s] = otp_hash[s]
          /\ otp_attempts'[s] < otp_attempts[s]
                => /\ Ran(s, IssueMsgs)
                   /\ otp_attempts'[s] = 0
                   /\ otp_time'[s] = now
      ]_vars

C6_Witness ==
    \E s \in Sessions :
        /\ out.sess = s /\ out.msg = "LockedOut"
        /\ otp_attempts[s] = MAX_OTP_ATTEMPTS /\ InWindow(s)

\* C7: a verify by a session that is not authenticated, more than
\* OTP_VALID_FOR_SEC after the code was issued, reports Expired for every
\* candidate and every attempt count, does not authenticate and takes the
\* session back to the state without a code on offer; in that state a verify
\* changes nothing, and only a run that issues a new code leaves it.
C7_ExpiredAlwaysFails ==
    [][ \A s \in Sessions :
          /\ \A c \in OtpInputs :
                ( /\ ~authenticated[s] /\ otp_sent[s]
                  /\ now - otp_time[s] > OTP_VALID_FOR_SEC
                  /\ VerifyOTP(s, c) )
                => (out'.msg = "Expired" /\ ~authenticated'[s] /\ ~otp_sent'[s])
          /\ \A c \in OtpInputs :
                (~otp_sent[s] /\ VerifyOTP(s, c))
                => (out'.msg = "Rendered" /\ session' = session)
          /\ (~otp_sent[s] /\ otp_sent'[s])
                => (Ran(s, IssueMsgs) /\ otp_time'[s] = now /\ otp_attempts'[s] = 0)
          /\ (~authenticated[s] /\ authenticated'[s]) => InWindow(s)
      ]_vars

C7_Witness ==
    \E s \in Sessions :
        /\ out.sess = s /\ out.msg = "Expired"
        /\ ~otp_sent[s] /\ otp_attempts[s] = MAX_OTP_ATTEMPTS

\* The row a step appended, when it appended one.
NewRow == IF sheet' # sheet THEN sheet'[Len(sheet')] ELSE csv'[Len(csv')]

\* C8: a step that changes a log store is a run of a session that was
\* authenticated when the run began; it adds exactly one row, for the
\* employee whose identifier the session holds, and the row has the cells
\* original, status and new for every column of the master record.  A
\* session's identifier is set only by the run that issues its code.
C8_RowsOnlyFromAuthenticated ==
    [][ /\ stores' # stores =>
             \E s \in Sessions, e \in MasterIndex :
                /\ authenticated[s] /\ Ran(s, RecordMsgs)
                /\ isdigit(employee_id[s]) /\ e = int(employee_id[s])
                /\ NewRow.employee_id = str(e)
                /\ RowsOf(e)' = RowsOf(e) + 1
                /\ \A x \in MasterIndex \ {e} : RowsOf(x)' = RowsOf(x)
                /\ DOMAIN NewRow.cells = ColSet
                /\ \A col \in ColSet :
                      /\ DOMAIN NewRow.cells[col] = {"original", "status", "new"}
                      /\ NewRow.cells[col].status \in {"confirmed", "corrected"}
        /\ \A s \in Sessions :
             employee_id'[s] # employee_id[s] =>
                \/ Ran(s, IssueMsgs) /\ otp_time'[s] = now /\ ValidEmployee(employee_id'[s])
                \/ Ran(s, RecordMsgs) /\ employee_id'[s] = <<>>
      ]_vars

C8_Witness ==
    /\ out.msg = "Recorded" /\ Len(sheet) = 1
    /\ sheet[1].employee_id = str(1)
    /\ sheet[1].cells["marital_status"].status = "corrected"
    /\ sheet[1].cells["employee_name"].status = "confirmed"

\* C9: the run that writes a row leaves its session not authenticated, with
\* otp_sent False, the empty text as hash (which no candidate hashes to) and
\* no employee identifier; a session without a code on offer accepts no
\* verify, becomes authenticated only through a verify that matches a code
\* issued to it, and only authenticated sessions write rows.
C9_WriteEndsSession ==
    [][ /\ \A s \in Sessions :
             /\ \A w \in DecisionInputs, p \in BOOLEAN, c \in BOOLEAN :
                   (authenticated[s] /\ stores' # stores /\ SubmitAndLock(s, w, p, c))
                   => /\ ~authenticated'[s] /\ ~otp_sent'[s]
                      /\ otp_hash'[s] = "" /\ employee_id'[s] = <<>>
                      /\ \A x \in OtpInputs : hash_str(x) # otp_hash'[s]
             /\ otp_hash[s] = "" => (~authenticated[s] /\ ~otp_sent[s])
             /\ (~authenticated[s] /\ authenticated'[s])
                   => /\ Ran(s, {"Verified"}) /\ otp_sent[s]
                      /\ \E x \in OtpInputs : hash_str(x) = otp_hash[s]
             /\ otp_hash'[s] \notin {otp_hash[s], ""} => Ran(s, IssueMsgs)
        /\ stores' # stores => \E s \in Sessions : authenticated[s] /\ Ran(s, RecordMsgs)
      ]_vars

C9_Witness ==
    \E s \in Sessions :
        /\ out.sess = s /\ out.msg \in RecordMsgs
        /\ ~authenticated[s] /\ ~otp_sent[s] /\ otp_hash[s] = "" /\ employee_id[s] = <<>>
        /\ email[s] # NoEmail

NoEffect == session' = session /\ stores' = stores /\ ~out'.mailed

\* C10: a request that fails validation (address outside the allowed domains,
\* identifier malformed or unknown, already submitted, inside the cooldown)
\* reports that failure, changes no session field and no store and sends no
\* mail.
C10_RejectedRequestNoEffect ==
    [][ \A s \in Sessions :
          (Ran(s, RequestMsgs) /\ ~authenticated[s]) =>
            /\ out'.msg \in RejectMsgs => NoEffect
            /\ \A em \in EmailInputs, id \in EmpIdInputs :
                 \/ /\ NoEffect
                    /\ out'.msg \in RejectMsgs
                    /\ em \notin AllowedEmails => out'.msg = "InvalidDomain"
                    /\ (em \in AllowedEmails /\ id \notin ValidIds)
                          => out'.msg \in {"UnknownEmployee", "ValueError"}
                 \/ ~( /\ \/ em \notin AllowedEmails
                         \/ id \notin ValidIds
                         \/ now - otp_time[s] < RESEND_COOLDOWN_SEC
                         \/ \A up \in BOOLEAN : already_submitted(int(id), up)
                      /\ SendOTP(s, em, id) )
      ]_vars

C10_Witness ==
    \E s \in Sessions :
        /\ out.sess = s /\ out.msg = "UnknownEmployee"
        /\ otp_sent[s] /\ otp_attempts[s] = 2 /\ otp_hash[s] # ""
\* C11: the CSV is absent, or its first line is the header line and every
\* other line is a data row, one per fallback write, whatever the order in
\* which the runs of the sessions take their steps.
C11_OneHeaderThenRows ==
    \/ csv = <<>>
    \/ /\ csv[1].kind = "header"
       /\ \A i \in 2..Len(csv) : csv[i].kind = "row"

\* The text a row shows for a value: dd/mm/yyyy for a date, nothing for a
\* null, the value itself otherwise.
CellText(v) == IF IsTimestamp(v) THEN strftime(v) ELSE IF isna(v) THEN Text("") ELSE v

\* C12: in the row a submission writes, a column is marked corrected exactly
\* when its radio was at "No", and then the row holds the master value as
\* original and the value of the correction widget as new, whatever that
\* value is.
C12_CorrectionsRecorded ==
    [][ \A s \in Sessions, e \in MasterIndex :
          (Ran(s, RecordMsgs) /\ authenticated[s] /\ e = int(employee_id[s])) =>
            \A w \in FormInputs(df_master[e]), p \in BOOLEAN, c \in BOOLEAN :
              SubmitAndLock(s, w, p, c) =>
                \A col \in ColSet :
                  /\ NewRow.cells[col].status = "corrected" <=> w[col].confirm = "No"
                  /\ w[col].confirm = "No" =>
                        /\ NewRow.cells[col].original = CellText(df_master[e][col])
                        /\ NewRow.cells[col].new = CellText(w[col].input)
      ]_vars

\* C13: the row written for a form with every radio at "Yes" has status
\* confirmed and an empty new cell in every column, and an empty original
\* cell where the master value is null.
C13_AllConfirmedRow ==
    [][ \A s \in Sessions, e \in MasterIndex :
          (Ran(s, RecordMsgs) /\ authenticated[s] /\ e = int(employee_id[s])) =>
            \A p \in BOOLEAN, c \in BOOLEAN :
              SubmitAndLock(s, AllYes, p, c) =>
                \A col \in ColSet :
                  /\ NewRow.cells[col].status = "confirmed"
                  /\ NewRow.cells[col].new = Text("")
                  /\ isna(df_master[e][col]) => NewRow.cells[col].original = Text("")
                  /\ ~isna(df_master[e][col]) =>
                        NewRow.cells[col].original = CellText(df_master[e][col])
      ]_vars

C13_Witness ==
    \E i \in 1..Len(sheet) :
        /\ sheet[i].employee_id = str(2)
        /\ isna(df_master[2]["employee_name"])
        /\ sheet[i].cells["employee_name"].original = Text("")
        /\ \A col \in ColSet : /\ sheet[i].cells[col].status = "confirmed"
                                /\ sheet[i].cells[col].new = Text("")

\* The rows of both stores.
Rows == {sheet[i] : i \in 1..Len(sheet)} \cup {csv[i] : i \in 2..Len(csv)}

\* A column edited through the text_input of line 206.
FreeText(record, col) == col \notin DropCols /\ ~IsTimestamp(record[col])

\* C14: no row marks a free-text column corrected with an empty new value.
C14_NoEmptyCorrection ==
    \A r \in Rows, col \in ColSet :
        FreeText(df_master[int(r.employee_id)], col) =>
            ~(r.cells[col].status = "corrected" /\ r.cells[col].new = Text(""))

\* C16: for every record and every column with a selectbox, the options the
\* selectbox offers hold the record's value in that column unless it is
\* null; so they do for the record of every authenticated session.
C16_OptionsHoldCurrentValue ==
    /\ \A e \in MasterIndex, col \in DropCols :
            ~isna(df_master[e][col]) => df_master[e][col] \in WidgetValues(df_master[e], col)
    /\ \A s \in Sessions, col \in DropCols :
            authenticated[s] =>
                \/ isna(df_master[int(employee_id[s])][col])
                \/ df_master[int(employee_id[s])][col] \in DROP_OPTIONS(col)

C16_Witness ==
    \E i \in 1..Len(sheet) :
        /\ sheet[i].employee_id = str(2)
        /\ sheet[i].cells["marital_status"].status = "corrected"
        /\ sheet[i].cells["marital_status"].new = df_master[2]["marital_status"]
        /\ sheet[i].cells["marital_status"].new # df_master[1]["marital_status"]

\* The candidates a verify of the session would accept now.
ActiveCodes(s) ==
    IF otp_sent[s] /\ ~authenticated[s] /\ ~Expired(s) /\ ~LockedOut(s)
    THEN {c \in OtpInputs : hash_str(c) = otp_hash[s]}
    ELSE {}

\* C15: a session accepts at most one code at a time, and a verify
\* authenticates only with that code; the stored hash changes only when a
\* code is issued or a row is written, and then no code the session accepted
\* before is accepted any longer, none at all after a write; a code that
\* matches the hash of one session does not authenticate another session
\* that holds a different hash.
C15_OneActiveCode ==
    [][ \A s \in Sessions :
          /\ Cardinality(ActiveCodes(s)) <= 1
          /\ Cardinality(ActiveCodes(s)') <= 1
          /\ (~authenticated[s] /\ authenticated'[s]) =>
                \E c \in ActiveCodes(s) : VerifyOTP(s, c)
          /\ otp_hash'[s] # otp_hash[s] =>
                /\ Ran(s, IssueMsgs \cup RecordMsgs)
                /\ \A c \in OtpInputs : hash_str(c) = otp_hash[s] => c \notin ActiveCodes(s)'
          /\ Ran(s, RecordMsgs) => ActiveCodes(s)' = {}
          /\ \A t \in Sessions \ {s}, c \in OtpInputs :
                ( /\ hash_str(c) = otp_hash[s] /\ otp_hash[t] # otp_hash[s]
                  /\ VerifyOTP(t, c) )
                => authenticated'[t] = authenticated[t]
      ]_vars

C15_Witness ==
    \E s \in Sessions, t \in Sessions :
        /\ authenticated[s] /\ otp_hash[s] = hash_str("111111")
        /\ out.sess = t /\ out.msg = "Mismatch"
        /\ otp_hash[t] = hash_str("222222") /\ employee_id[t] = employee_id[s]

FailMsgs == {"Expired", "LockedOut", "Mismatch"}

\* The fields of the session a failed verify is said to leave alone.
Identity(s) == <<email[s], employee_id[s], otp_time[s], authenticated[s]>>

\* C17, as stated: a verify that fails leaves the address, the identifier,
\* the issue time, the code-sent flag and the authenticated flag as they
\* were; a mismatch adds one to the attempt counter and changes nothing else,
\* an expired or locked-out verify changes nothing at all.
C17_FailedVerifyFrame ==
    [][ \A s \in Sessions :
          Ran(s, FailMsgs) =>
            /\ Identity(s)' = Identity(s)
            /\ otp_sent'[s] = otp_sent[s]
            /\ out'.msg = "Mismatch" =>
                  (otp_attempts'[s] = otp_attempts[s] + 1 /\ otp_hash'[s] = otp_hash[s])
            /\ out'.msg \in {"Expired", "LockedOut"} => session' = session
      ]_vars

\* C17, amended: as above, except that an expired verify sets the code-sent
\* flag to False (and changes nothing else); no failed verify touches the
\* hash, another session or a store.
C17_FailedVerifyFrameAmended ==
    [][ \A s \in Sessions :
          Ran(s, FailMsgs) =>
            /\ Identity(s)' = Identity(s)
            /\ otp_hash' = otp_hash
            /\ stores' = stores
            /\ \A t \in Sessions \ {s} :
                  /\ Identity(t)' = Identity(t)
                  /\ otp_sent'[t] = otp_sent[t] /\ otp_attempts'[t] = otp_attempts[t]
            /\ out'.msg = "Mismatch" =>
                  /\ otp_attempts'[s] = otp_attempts[s] + 1
                  /\ otp_sent'[s] = otp_sent[s]
            /\ out'.msg = "LockedOut" => session' = session
            /\ out'.msg = "Expired" =>
                  /\ otp_sent[s] /\ ~otp_sent'[s]
                  /\ otp_attempts'[s] = otp_attempts[s]
      ]_vars

C17_Witness ==
    \E s \in Sessions :
        /\ out.sess = s /\ out.msg = "Expired"
        /\ ~otp_sent[s] /\ otp_attempts[s] = 1
        /\ otp_hash[s] # "" /\ email[s] # NoEmail /\ employee_id[s] # <<>>

\* C18: a request that passes every check and whose mail fails has stored
\* the hash of a generated code, the issue time and an attempt counter of 0,
\* with the code-sent flag set and no mail sent; a verify with the code whose
\* hash is stored, inside the validity window and below the attempt limit,
\* authenticates; and a retry of the request sooner than RESEND_COOLDOWN_SEC
\* after the failed one is answered CooldownActive and issues nothing.
C18_UndeliveredCodeStands ==
    [][ \A s \in Sessions :
          /\ Ran(s, {"DeliveryError"}) =>
                /\ ~out'.mailed
                /\ \E otp \in generate_otp : otp_hash'[s] = hash_str(otp)
                /\ otp_time'[s] = now /\ otp_attempts'[s] = 0
                /\ otp_sent'[s] /\ ~authenticated'[s]
                /\ int(employee_id'[s]) \in MasterIndex
          /\ Ran(s, {"Verified", "Mismatch", "Expired", "LockedOut"}) =>
                \A c \in OtpInputs :
                  ( /\ hash_str(c) = otp_hash[s] /\ InWindow(s)
                    /\ otp_attempts[s] < MAX_OTP_ATTEMPTS
                    /\ VerifyOTP(s, c) )
                  => (authenticated'[s] /\ out'.msg = "Verified")
          /\ ( /\ out.sess = s /\ out.msg = "DeliveryError"
               /\ now - otp_time[s] < RESEND_COOLDOWN_SEC
               /\ Ran(s, RequestMsgs) ) =>
                \A em \in AllowedEmails, id \in ValidIds :
                  (~Submitted(int(id)) /\ SendOTP(s, em, id))
                  => (out'.msg = "CooldownActive" /\ session' = session)
      ]_vars

C18_Witness ==
    \E s \in Sessions :
        /\ out.sess = s /\ out.msg = "DeliveryError" /\ ~out.mailed
        /\ otp_sent[s] /\ otp_hash[s] # "" /\ otp_attempts[s] = 0 /\ otp_time[s] = now
        /\ now > StartTime

\* C19: an authenticated session holds a decimal identifier of a master row,
\* an allowed address and the hash of the code last issued to it; a code is
\* issued only to a session that is not authenticated, for an allowed
\* address and an identifier that names a master row not found submitted;
\* a session becomes authenticated only in a verify whose candidate hashes
\* to the stored hash, inside the validity window and below the attempt
\* limit; while it is authenticated its identifier and hash stay, and it
\* stops being authenticated only in the run that writes its row.
C19_AuthenticatedSessionIsSound ==
    [][ \A s \in Sessions :
          /\ authenticated'[s] =>
                /\ isdigit(employee_id'[s]) /\ ~IntRaises(employee_id'[s])
                /\ int(employee_id'[s]) \in MasterIndex
                /\ AllowedDomain(email'[s])
                /\ otp_sent'[s] /\ \E c \in Codes : otp_hash'[s] = hash_str(c)
          /\ Ran(s, IssueMsgs) =>
                /\ ~authenticated[s] /\ ~authenticated'[s]
                /\ AllowedDomain(email'[s])
                /\ isdigit(employee_id'[s]) /\ int(employee_id'[s]) \in MasterIndex
                /\ \E up \in BOOLEAN : ~already_submitted(int(employee_id'[s]), up)
          /\ (~authenticated[s] /\ authenticated'[s]) =>
                /\ Ran(s, {"Verified"})
                /\ otp_sent[s] /\ InWindow(s) /\ otp_attempts[s] < MAX_OTP_ATTEMPTS
                /\ \E c \in OtpInputs : hash_str(c) = otp_hash[s] /\ VerifyOTP(s, c)
                /\ employee_id'[s] = employee_id[s] /\ otp_hash'[s] = otp_hash[s]
          /\ (authenticated[s] /\ authenticated'[s]) =>
                /\ employee_id'[s] = employee_id[s] /\ email'[s] = email[s]
                /\ otp_hash'[s] = otp_hash[s] /\ otp_time'[s] = otp_time[s]
          /\ (authenticated[s] /\ ~authenticated'[s]) => Ran(s, RecordMsgs)
      ]_vars

C19_Witness ==
    \E s \in Sessions :
        /\ authenticated[s] /\ out.sess = s /\ out.msg = "Summary"
        /\ employee_id[s] = <<"0", "1">> /\ otp_attempts[s] = 2
        /\ now - otp_time[s] > OTP_VALID_FOR_SEC

\* C20: the attempt counter stays between 0 and MAX_OTP_ATTEMPTS; a
\* candidate is compared and found wrong only while the counter is below
\* MAX_OTP_ATTEMPTS, and that adds exactly one; the counter changes in no
\* other way except that a run which issues a code sets it to 0.
C20_AttemptsBounded ==
    [][ \A s \in Sessions :
          /\ otp_attempts[s] \in 0..MAX_OTP_ATTEMPTS
          /\ otp_attempts'[s] \in 0..MAX_OTP_ATTEMPTS
          /\ Ran(s, {"Mismatch"}) =>
                /\ otp_attempts[s] < MAX_OTP_ATTEMPTS
                /\ otp_attempts'[s] = otp_attempts[s] + 1
                /\ otp_hash'[s] = otp_hash[s] /\ otp_time'[s] = otp_time[s]
          /\ Ran(s, IssueMsgs) => otp_attempts'[s] = 0
          /\ otp_attempts'[s] # otp_attempts[s] => Ran(s, {"Mismatch"} \cup IssueMsgs)
          /\ (otp_attempts[s] > 0 /\ otp_attempts'[s] = 0) =>
                (Ran(s, IssueMsgs) /\ otp_time'[s] = now /\ otp_sent'[s])
      ]_vars

C20_Witness ==
    \E s \in Sessions :
        /\ out.sess = s /\ out.msg = "Mismatch"
        /\ otp_attempts[s] = MAX_OTP_ATTEMPTS /\ otp_sent[s] /\ ~authenticated[s]
====
